---- MODULE Spec2Model ----
(***************************************************************************)
(* Leaderboard submission of TauriPets (src/supabase-functions.js,         *)
(* submitScore).  The remote table 'Leaderboard' is shared by every        *)
(* browser session; a session runs submitScore as an async function whose  *)
(* awaits (two lookups, an optional delete, one insert or update) are the  *)
(* points at which other sessions' store calls may take place.             *)
(*                                                                         *)
(* The store is taken as the code uses it: a table without constraints of  *)
(* its own (submitScore looks rows up before it writes and never relies on *)
(* a rejected duplicate), whose calls resolve to {data, error} or reject;  *)
(* a call that fails changes nothing.  Timestamps (created_at) are left    *)
(* out: nothing in submitScore reads them.                                 *)
(*                                                                         *)
(* The collection fingerprint of submitScore (lines 105-111) is computed   *)
(* on strings of character codes, with the sort, the join, btoa and the    *)
(* cut to 64 characters as the code performs them; inside the submission   *)
(* model a fingerprint stands by a number.  The My Collection tab          *)
(* (src/ui.js: displayMyCollection, getMyFilteredPets, renderMyPets) is    *)
(* modelled on the same loaded collection.                                 *)
(***************************************************************************)
EXTENDS Integers, Sequences, FiniteSets

\* ---------------------------------------------------------------- bounds
\* Pets in a collection that is fingerprinted.
MaxPets == 5
\* Pets in a collection shown on the My Collection tab.
MaxShown == 2
\* Number of submitScore calls over the whole run.
MaxAttempts == 2
\* Scores (currentScoreData.total) range over 1..MaxScore.
MaxScore == 3
\* Distinct collection fingerprints (collectionId values) a session may hold.
NumFingerprints == 2

\* ---------------------------------------------------------------- inputs
Procs == {1, 2}
\* The characters that submit: two of one name on two realms, one of another.
Characters ==
    {[player |-> "A", realm |-> "r1"], [player |-> "A", realm |-> "r2"],
     [player |-> "B", realm |-> "r1"]}
Fingerprints == 1..NumFingerprints

\* JavaScript null / undefined (a lookup that found nothing, a global not set).
Null == [id |-> 0]

\* How the store client answers one call: "ok", "error" (it resolves to
\* {data: null, error}, the shape lines 56, 73 and 200 read) or "throw" (the
\* promise rejects, which the try/catch of lines 120-212 expects).
StoreModes == {"ok", "error", "throw"}
Reliable == {"ok"}

\* The global playerData: a loaded collection (its pets stand for their
\* fingerprint) or nothing loaded.
PlayerDatas ==
    {[playerName |-> c.player, realmName |-> c.realm, fingerprint |-> f]
       : c \in Characters, f \in Fingerprints}

\* The global currentScoreData for a total of n; the four counts are distinct.
ScoreData(n) ==
    [total |-> n,
     stats |-> [uniqueCount |-> n + 3, level25Count |-> n + 2,
                rareCount |-> n + 1, epicCount |-> n]]

ScoreDatas == {ScoreData(n) : n \in 1..MaxScore}

VARIABLES
    board,          \* the rows of table 'Leaderboard'
    nextId,         \* the id the store gives the next inserted row
    attempts,       \* submitScore calls begun so far
    pc,             \* per session: where its submitScore call stands
    data,           \* per session: the local `data` (lines 95-103)
    collectionId,   \* per session: the local `collectionId` (line 111)
    duplicateCheck, \* per session: the local `duplicateCheck` (line 125)
    existing,       \* per session: the local `existing` (line 154)
    ops,            \* per session: the store writes the call has issued
    failed,         \* per session: some store call of this attempt failed
    refusal,        \* per session: the confirm() the user answered with Cancel
    before,         \* per session: the board when the attempt began
    loaded,         \* per session: the globals playerData and currentScoreData
    asked,          \* per session: the confirm()s shown and store reads issued
    decisions,      \* what a completed attempt was given and what it issued
    petList,        \* the pets of the loaded collection (playerData.pets)
    fingerprint,    \* the collection fingerprint computed from petList
    reordered,      \* petList was put in another order since it was computed
    changedPet,     \* the place in petList of the pet changed since then
    stats,          \* the counts displayMyCollection has put on the page
    shown           \* the list getMyFilteredPets has returned

\* What a submitScore call reads and writes.
callVars == <<board, nextId, attempts, pc, data, collectionId, duplicateCheck,
              existing, ops, failed, refusal, before, loaded, asked,
              decisions>>

\* The loaded collection and what the page has computed from it.
pageVars == <<petList, fingerprint, reordered, changedPet, stats, shown>>

vars == <<callVars, pageVars>>

InFlight == {"dupCheck", "delete", "existCheck", "update", "insert"}
\* How a call ends: the alert of line 91, Cancel at line 113, Cancel at line
\* 136, the alert of line 162, the alert of line 202, the catch of line 209,
\* the feedback of lines 206-208.
Ended == {"refused", "cancelled", "declined", "notImproved", "errorResult",
          "exception", "success"}

\* ------------------------------------------------- the loaded collection
\* JavaScript values of a pet's properties: undefined (the property is
\* missing), a number, a boolean, a string.  A string stands by its place in
\* the collation order of the names used (0 is the empty string).
Undefined == [t |-> "undefined", v |-> 0]
Num(n) == [t |-> "number", v |-> n]
Bool(b) == [t |-> "boolean", v |-> IF b THEN 1 ELSE 0]
Str(k) == [t |-> "string", v |-> k]

\* ToBoolean: undefined, false, 0 and '' are falsy.
Truthy(x) == x.t # "undefined" /\ x.v # 0

\* x || d
Or(x, d) == IF Truthy(x) THEN x ELSE d

\* One entry of playerData.pets.
Pet(speciesID, speciesName, level, quality, qualityID, favorite, petType) ==
    [speciesID |-> speciesID, speciesName |-> speciesName, level |-> level,
     quality |-> quality, qualityID |-> qualityID, favorite |-> favorite,
     petType |-> petType]

\* QualityByID with qualityID left out: a missing quality counts as 0.
QualityWithoutID(p) == IF p.quality.t = "number" THEN p.quality ELSE Num(0)

\* (typeof p.quality === 'number' ? p.quality : (p.qualityID || 0))
Quality(p) ==
    IF p.quality.t = "number" THEN p.quality ELSE Or(p.qualityID, Num(0))

\* All lists over S of at most n entries.
ListsUpTo(S, n) == UNION {[1..k -> S] : k \in 0..n}

\* Strings are sequences of character codes.
Dash == 45
Comma == 44
Zero == 48

\* String(n) of a non-negative integer: its decimal digits.
RECURSIVE Digits(_)
Digits(n) ==
    IF n < 10 THEN <<Zero + n>> ELSE Append(Digits(n \div 10), Zero + (n % 10))

\* `${p.speciesID || 0}-${p.level || 1}-${quality}`
Token(p) ==
    Digits(Or(p.speciesID, Num(0)).v) \o <<Dash>> \o
    Digits(Or(p.level, Num(1)).v) \o <<Dash>> \o Digits(Quality(p).v)

\* The order of .sort() without a comparator: strings by their code units.
RECURSIVE StrBefore(_, _)
StrBefore(a, b) ==
    IF b = <<>> THEN FALSE
    ELSE IF a = <<>> THEN TRUE
    ELSE IF Head(a) # Head(b) THEN Head(a) < Head(b)
    ELSE StrBefore(Tail(a), Tail(b))

\* One string put in its place in a sorted list.
RECURSIVE SortedInsert(_, _)
SortedInsert(x, l) ==
    IF l = <<>> THEN <<x>>
    ELSE IF StrBefore(Head(l), x) \/ Head(l) = x
           THEN <<Head(l)>> \o SortedInsert(x, Tail(l))
           ELSE <<x>> \o l

\* SortStrings left out: the tokens stay in the order of the list.
Unsorted(l) == l

\* .sort()
RECURSIVE SortStrings(_)
SortStrings(l) ==
    IF l = <<>> THEN <<>> ELSE SortedInsert(Head(l), SortStrings(Tail(l)))

\* .join(',')
RECURSIVE Join(_)
Join(l) ==
    IF l = <<>> THEN <<>>
    ELSE IF Len(l) = 1 THEN Head(l)
    ELSE Head(l) \o <<Comma>> \o Join(Tail(l))

\* The base64 alphabet: A-Z, a-z, 0-9, +, /.
Base64Char(i) ==
    IF i < 26 THEN 65 + i
    ELSE IF i < 52 THEN 97 + (i - 26)
    ELSE IF i < 62 THEN 48 + (i - 52)
    ELSE IF i = 62 THEN 43 ELSE 47

\* The padding character '='.
Pad == 61

\* btoa(s): every three bytes give four characters, a last group of one or two
\* bytes is padded.
RECURSIVE Btoa(_)
Btoa(s) ==
    IF s = <<>> THEN <<>>
    ELSE IF Len(s) = 1
      THEN <<Base64Char(s[1] \div 4), Base64Char((s[1] % 4) * 16), Pad, Pad>>
    ELSE IF Len(s) = 2
      THEN <<Base64Char(s[1] \div 4),
             Base64Char((s[1] % 4) * 16 + s[2] \div 16),
             Base64Char((s[2] % 16) * 4), Pad>>
    ELSE <<Base64Char(s[1] \div 4),
           Base64Char((s[1] % 4) * 16 + s[2] \div 16),
           Base64Char((s[2] % 16) * 4 + s[3] \div 64),
           Base64Char(s[3] % 64)>> \o Btoa(SubSeq(s, 4, Len(s)))

\* .substring(0, n)
Substring(s, n) == SubSeq(s, 1, IF Len(s) < n THEN Len(s) ELSE n)

\* The length the fingerprint is cut to.
FingerprintLength == 64

\* petList.map(...) of line 108.
Tokens(pets) == [i \in DOMAIN pets |-> Token(pets[i])]

\* Lines 106-111: const sortedPets = petList.map(...).sort().join(',');
\* const collectionId = btoa(sortedPets).substring(0, 64).
CollectionIdOf(pets) ==
    Substring(Btoa(Join(SortStrings(Tokens(pets)))), FingerprintLength)

\* No fingerprint has been computed (no string btoa gives).
NotComputed == <<0>>

\* The pets whose collections are fingerprinted: two of a species with a long
\* id that differ in quality alone (one by `quality`, one by `qualityID`), one
\* of a species with a short id, one with nothing but defaults.
FingerprintPets ==
    {Pet(Num(1155), Undefined, Num(25), Num(3), Undefined, Undefined, Undefined),
     Pet(Num(1155), Undefined, Num(25), Undefined, Num(4), Undefined, Undefined),
     Pet(Num(39), Undefined, Num(1), Num(2), Undefined, Undefined, Undefined),
     Pet(Undefined, Undefined, Undefined, Undefined, Undefined, Undefined,
         Undefined)}

\* The levels and qualities a pet is changed to.
Levels == {Num(1), Num(24), Num(25)}
Qualities == {Num(2), Num(3), Num(4)}

\* The list of pets has not been rendered (no list of pets).
NotShown == <<Null>>

\* The page has computed nothing.
NothingComputed ==
    /\ fingerprint = NotComputed
    /\ reordered = FALSE
    /\ changedPet = 0
    /\ stats = Null
    /\ shown = NotShown

\* No collection is loaded.
NoCollection ==
    /\ petList = <<>>
    /\ NothingComputed

\* ------------------------------------------------------ the store client
\* .maybeSingle(): the row when exactly one matches, null when none does, and
\* {data: null, error} when several do.
MaybeSingle(rows) ==
    IF Cardinality(rows) = 1 THEN CHOOSE r \in rows : TRUE ELSE Null

\* .select(...).eq('collection_id', cid)
SelectByCollectionId(b, cid) == {r \in b : r.collection_id = cid}

\* .select(...).eq('player', player).eq('realm', realm)
SelectByPlayerRealm(b, player, realm) ==
    {r \in b : r.player = player /\ r.realm = realm}

\* .delete().eq('id', id)
DeleteById(b, id) == {r \in b : r.id # id}

\* The object passed to .insert(), stored under a fresh id.
InsertedRow(d, cid, id) ==
    [id |-> id, player |-> d.player, realm |-> d.realm, score |-> d.score,
     pets |-> d.pets, level25 |-> d.level25, rare |-> d.rare, epic |-> d.epic,
     collection_id |-> cid]

\* The object passed to .update(), applied to one matching row.
UpdatedRow(r, d, cid) ==
    [r EXCEPT !.realm = d.realm, !.score = d.score, !.pets = d.pets,
              !.level25 = d.level25, !.rare = d.rare, !.epic = d.epic,
              !.collection_id = cid]

\* .update({...}).eq('player', player).eq('realm', realm): every matching row.
UpdateByPlayerRealm(b, d, cid) ==
    {IF r.player = d.player /\ r.realm = d.realm THEN UpdatedRow(r, d, cid) ELSE r
       : r \in b}

\* --------------------------------------------------- submitScore, locals
\* const data = {...}
MakeData(pd, sd) ==
    [player |-> pd.playerName, realm |-> pd.realmName, score |-> sd.total,
     pets |-> sd.stats.uniqueCount, level25 |-> sd.stats.level25Count,
     rare |-> sd.stats.rareCount, epic |-> sd.stats.epicCount]

\* if (!currentScoreData || !playerData)
NothingLoaded(pd, sd) == sd = Null \/ pd = Null

\* if (duplicateCheck) { if (duplicateCheck.player !== data.player) {
IsOtherPlayers(dup, d) == dup # Null /\ dup.player # d.player

\* NotAnImprovement with > for >=: an equal score counts as an improvement.
NotAnImprovementStrict(ex, d) == ex # Null /\ ex.score > d.score

\* if (existing && existing.score >= data.score)
NotAnImprovement(ex, d) == ex # Null /\ ex.score >= d.score

\* The writes as the attempt's log records them.
DeleteOp(id) == [op |-> "delete", id |-> id, row |-> Null]
InsertOp(d, cid) == [op |-> "insert", id |-> 0, row |-> InsertedRow(d, cid, 0)]
UpdateOp(d, cid) == [op |-> "update", id |-> 0, row |-> InsertedRow(d, cid, 0)]

\* No call stands at a return.  A call that has reached a return finishes at
\* once: what is left of it is synchronous and touches nothing shared.
Quiet == \A q \in Procs : pc[q] \notin Ended

\* The globals a call has not looked at.
NoGlobals == [playerData |-> Null, currentScoreData |-> Null]

\* The row an earlier, completed submission of A-r1 (score 1, fingerprint 1)
\* has left on the board.
SeedRow ==
    InsertedRow(MakeData([playerName |-> "A", realmName |-> "r1", fingerprint |-> 1],
                         ScoreData(1)), 1, 1)

\* No submitScore call is under way.
NoCalls ==
    /\ attempts = 0
    /\ pc = [p \in Procs |-> "idle"]
    /\ data = [p \in Procs |-> Null]
    /\ collectionId = [p \in Procs |-> 0]
    /\ duplicateCheck = [p \in Procs |-> Null]
    /\ existing = [p \in Procs |-> Null]
    /\ ops = [p \in Procs |-> <<>>]
    /\ failed = [p \in Procs |-> FALSE]
    /\ refusal = [p \in Procs |-> "none"]
    /\ before = [p \in Procs |-> {}]
    /\ loaded = [p \in Procs |-> NoGlobals]
    /\ asked = [p \in Procs |-> <<>>]
    /\ decisions = {}

\* An empty leaderboard.
InitEmpty ==
    /\ board = {}
    /\ nextId = 1
    /\ NoCalls
    /\ NoCollection

\* An empty leaderboard, or one that holds the row of one earlier submission.
Init ==
    /\ board \in {{}, {SeedRow}}
    /\ nextId = Cardinality(board) + 1
    /\ NoCalls
    /\ NoCollection

\* AskedAtEntry with the guard of line 90 after the confirm of line 113.
AskedAtEntryConfirmFirst(pd, sd, answer) ==
    IF answer /\ ~NothingLoaded(pd, sd) THEN <<"confirm", "read">>
    ELSE <<"confirm">>

\* Lines 89-129: what the call asks for up to its first await: nothing when
\* the guard of line 90 returns, else the confirm of line 113 and, on OK, the
\* fingerprint lookup.
AskedAtEntry(pd, sd, answer) ==
    IF NothingLoaded(pd, sd) THEN <<>>
    ELSE IF answer THEN <<"confirm", "read">> ELSE <<"confirm">>

\* Lines 113-118: if (!confirm('Submit your score?...')) return;
AfterSubmitPrompt(answer) == IF answer THEN "dupCheck" ELSE "cancelled"

\* AfterDupCheck without the return of line 139: Cancel goes on to the delete.
AfterDupCheckNoReturn(dup, d, answer) ==
    IF IsOtherPlayers(dup, d) THEN "delete" ELSE "existCheck"

\* Lines 133-151: after the fingerprint lookup: the replace prompt on a row of
\* another player (Cancel returns, OK goes on to the delete), else straight to
\* the player+realm lookup.
AfterDupCheck(dup, d, answer) ==
    IF IsOtherPlayers(dup, d)
      THEN IF answer THEN "delete" ELSE "declined"
      ELSE "existCheck"

\* Lines 142-153: the delete's result is not looked at; a rejection is caught.
AfterDelete(m) == IF m = "throw" THEN "exception" ELSE "existCheck"

\* NextWrite by what the page remembers: a call after the first updates.
NextWriteAfterFirst(ex) == IF ex # Null \/ attempts > 1 THEN "update" ELSE "insert"

\* NextWrite with the branches of line 167 swapped.
NextWriteSwapped(ex) == IF ex # Null THEN "insert" ELSE "update"

\* Line 167: if (existing) update, else insert.
NextWrite(ex) == IF ex # Null THEN "update" ELSE "insert"

\* Lines 161-167: after the player+realm lookup.
AfterExistCheck(ex, d) ==
    IF NotAnImprovement(ex, d) THEN "notImproved" ELSE NextWrite(ex)

\* AfterWrite with a retry: a failed write is followed by another insert.
AfterWriteRetry(m) == IF m = "ok" THEN "success" ELSE "insert"

\* Lines 198-212: after the awaited write: a rejection is caught, result.error
\* ends in the error alert, anything else in the 'Score submitted' feedback.
AfterWrite(m) ==
    IF m = "ok" THEN "success"
    ELSE IF m = "error" THEN "errorResult" ELSE "exception"

\* Lines 89-123: the guard, the locals, the first confirm and the request of
\* the fingerprint lookup.
Begin(p) ==
    /\ pc[p] = "idle"
    /\ Quiet
    /\ attempts < MaxAttempts
    /\ attempts' = attempts + 1
    /\ \E pd \in PlayerDatas \cup {Null}, sd \in ScoreDatas \cup {Null},
          answer \in BOOLEAN :
         /\ duplicateCheck' = [duplicateCheck EXCEPT ![p] = Null]
         /\ existing' = [existing EXCEPT ![p] = Null]
         /\ ops' = [ops EXCEPT ![p] = <<>>]
         /\ failed' = [failed EXCEPT ![p] = FALSE]
         /\ before' = [before EXCEPT ![p] = board]
         /\ loaded' = [loaded EXCEPT ![p] =
                          [playerData |-> pd, currentScoreData |-> sd]]
         /\ asked' = [asked EXCEPT ![p] = AskedAtEntry(pd, sd, answer)]
         /\ IF NothingLoaded(pd, sd)
              THEN /\ pc' = [pc EXCEPT ![p] = "refused"]
                   /\ data' = [data EXCEPT ![p] = Null]
                   /\ collectionId' = [collectionId EXCEPT ![p] = 0]
                   /\ refusal' = [refusal EXCEPT ![p] = "none"]
              ELSE /\ data' = [data EXCEPT ![p] = MakeData(pd, sd)]
                   /\ collectionId' = [collectionId EXCEPT ![p] = pd.fingerprint]
                   /\ pc' = [pc EXCEPT ![p] = AfterSubmitPrompt(answer)]
                   /\ refusal' = [refusal EXCEPT ![p] =
                                     IF answer THEN "none" ELSE "submit"]
    /\ UNCHANGED <<board, nextId>>
    /\ UNCHANGED <<decisions, pageVars>>

\* A lookup resolved with an error: the client reported one, or .maybeSingle()
\* met several rows.
LookupFailed(m, rows) == m = "error" \/ Cardinality(rows) > 1

\* The `data` field of an awaited lookup that did not throw.
LookupData(m, rows) == IF m = "ok" THEN MaybeSingle(rows) ELSE Null

\* Lines 124-151: the fingerprint lookup resolves; on a row of another player
\* the replace prompt, then the request of the delete.
DupCheck(p, M) ==
    /\ pc[p] = "dupCheck"
    /\ Quiet
    /\ \E m \in M, answer \in BOOLEAN :
         LET rows == SelectByCollectionId(board, collectionId[p])
             dup == LookupData(m, rows)
         IN  IF m = "throw"
               THEN /\ pc' = [pc EXCEPT ![p] = "exception"]
                    /\ failed' = [failed EXCEPT ![p] = TRUE]
                    /\ UNCHANGED <<duplicateCheck, refusal, asked>>
               ELSE /\ duplicateCheck' = [duplicateCheck EXCEPT ![p] = dup]
                    /\ asked' = [asked EXCEPT ![p] =
                                    @ \o IF IsOtherPlayers(dup, data[p])
                                           THEN <<"confirm">> ELSE <<"read">>]
                    /\ failed' = [failed EXCEPT ![p] = @ \/ LookupFailed(m, rows)]
                    /\ pc' = [pc EXCEPT ![p] = AfterDupCheck(dup, data[p], answer)]
                    /\ refusal' = [refusal EXCEPT ![p] =
                                      IF IsOtherPlayers(dup, data[p]) /\ ~answer
                                        THEN "replace" ELSE @]
    /\ UNCHANGED <<board, nextId, attempts, data, collectionId, existing, ops,
                   before, loaded>>
    /\ UNCHANGED <<decisions, pageVars>>

\* Lines 142-148: the delete of the other player's row resolves; its result is
\* not looked at.
Delete(p, M) ==
    /\ pc[p] = "delete"
    /\ Quiet
    /\ ops' = [ops EXCEPT ![p] = Append(@, DeleteOp(duplicateCheck[p].id))]
    /\ \E m \in M :
         /\ board' = IF m = "ok" THEN DeleteById(board, duplicateCheck[p].id)
                                 ELSE board
         /\ failed' = [failed EXCEPT ![p] = @ \/ m # "ok"]
         /\ pc' = [pc EXCEPT ![p] = AfterDelete(m)]
         /\ asked' = [asked EXCEPT ![p] =
                         IF m = "throw" THEN @ ELSE Append(@, "read")]
    /\ UNCHANGED <<nextId, attempts, data, collectionId, duplicateCheck,
                   existing, refusal, before, loaded>>
    /\ UNCHANGED <<decisions, pageVars>>

\* Lines 153-167: the player+realm lookup resolves; the not-an-improvement
\* return, else the request of the update or of the insert.
ExistCheck(p, M) ==
    /\ pc[p] = "existCheck"
    /\ Quiet
    /\ \E m \in M :
         LET rows == SelectByPlayerRealm(board, data[p].player, data[p].realm)
             ex == LookupData(m, rows)
         IN  IF m = "throw"
               THEN /\ pc' = [pc EXCEPT ![p] = "exception"]
                    /\ failed' = [failed EXCEPT ![p] = TRUE]
                    /\ UNCHANGED existing
               ELSE /\ existing' = [existing EXCEPT ![p] = ex]
                    /\ failed' = [failed EXCEPT ![p] = @ \/ LookupFailed(m, rows)]
                    /\ pc' = [pc EXCEPT ![p] = AfterExistCheck(ex, data[p])]
    /\ UNCHANGED <<board, nextId, attempts, data, collectionId, duplicateCheck,
                   ops, refusal, before, loaded, asked>>
    /\ UNCHANGED <<decisions, pageVars>>

\* Lines 168-181 and 198-212: the update resolves.
Update(p, M) ==
    /\ pc[p] = "update"
    /\ Quiet
    /\ ops' = [ops EXCEPT ![p] = Append(@, UpdateOp(data[p], collectionId[p]))]
    /\ \E m \in M :
         /\ board' = IF m = "ok"
                       THEN UpdateByPlayerRealm(board, data[p], collectionId[p])
                       ELSE board
         /\ failed' = [failed EXCEPT ![p] = @ \/ m # "ok"]
         /\ pc' = [pc EXCEPT ![p] = AfterWrite(m)]
    /\ UNCHANGED <<nextId, attempts, data, collectionId, duplicateCheck,
                   existing, refusal, before, loaded, asked>>
    /\ UNCHANGED <<decisions, pageVars>>

\* Lines 183-195 and 198-212: the insert resolves.
Insert(p, M) ==
    /\ pc[p] = "insert"
    /\ Quiet
    /\ ops' = [ops EXCEPT ![p] = Append(@, InsertOp(data[p], collectionId[p]))]
    /\ \E m \in M :
         /\ IF m = "ok"
              THEN /\ board' = board \cup
                                 {InsertedRow(data[p], collectionId[p], nextId)}
                   /\ nextId' = nextId + 1
              ELSE UNCHANGED <<board, nextId>>
         /\ failed' = [failed EXCEPT ![p] = @ \/ m # "ok"]
         /\ pc' = [pc EXCEPT ![p] = AfterWrite(m)]
    /\ UNCHANGED <<attempts, data, collectionId, duplicateCheck, existing,
                   refusal, before, loaded, asked>>
    /\ UNCHANGED <<decisions, pageVars>>

\* The locals of a call that returns are gone.
Forget(p) ==
    /\ pc[p] \in Ended
    /\ pc' = [pc EXCEPT ![p] = "idle"]
    /\ data' = [data EXCEPT ![p] = Null]
    /\ collectionId' = [collectionId EXCEPT ![p] = 0]
    /\ duplicateCheck' = [duplicateCheck EXCEPT ![p] = Null]
    /\ existing' = [existing EXCEPT ![p] = Null]
    /\ ops' = [ops EXCEPT ![p] = <<>>]
    /\ failed' = [failed EXCEPT ![p] = FALSE]
    /\ refusal' = [refusal EXCEPT ![p] = "none"]
    /\ before' = [before EXCEPT ![p] = {}]
    /\ loaded' = [loaded EXCEPT ![p] = NoGlobals]
    /\ asked' = [asked EXCEPT ![p] = <<>>]
    /\ UNCHANGED <<board, nextId, attempts>>
    /\ UNCHANGED pageVars

\* Lines 93, 117, 139, 163, 203, 207-212: the call returns.
Return(p) ==
    /\ Forget(p)
    /\ UNCHANGED decisions

\* What the attempt of p was given (the candidate, its fingerprint, the rows
\* its two lookups gave it, the user's answers) and what it issued.
Decision(p) ==
    [data |-> data[p], collectionId |-> collectionId[p],
     duplicateCheck |-> duplicateCheck[p], existing |-> existing[p],
     refusal |-> refusal[p], outcome |-> pc[p], ops |-> ops[p],
     asked |-> asked[p]]

\* The call returns; an observer keeps what the attempt before the last was
\* given and what it issued, when it had a candidate.
ReturnRecorded(p) ==
    /\ Forget(p)
    /\ decisions' = IF attempts = MaxAttempts - 1 /\ pc[p] # "refused"
                      THEN {Decision(p)} ELSE decisions

\* No other session is inside submitScore.
Alone(p) == \A q \in Procs \ {p} : pc[q] = "idle"

\* A call begun while no other call is under way.  Which session makes the
\* call makes no difference to it (Return leaves nothing of the call before),
\* so the lowest session makes the calls that run one at a time.
BeginSeq(p) ==
    /\ Alone(p)
    /\ \A q \in Procs : p <= q
    /\ Begin(p)

\* Sessions interleave at their awaits; store calls may fail.
Next ==
    \E p \in Procs :
        \/ Begin(p)
        \/ DupCheck(p, StoreModes)
        \/ Delete(p, StoreModes)
        \/ ExistCheck(p, StoreModes)
        \/ Update(p, StoreModes)
        \/ Insert(p, StoreModes)
        \/ Return(p)

\* Sessions interleave at their awaits; every store call succeeds.
NextReliable ==
    \E p \in Procs :
        \/ Begin(p)
        \/ DupCheck(p, Reliable)
        \/ Delete(p, Reliable)
        \/ ExistCheck(p, Reliable)
        \/ Update(p, Reliable)
        \/ Insert(p, Reliable)
        \/ Return(p)

\* One attempt at a time; store calls may fail.
NextSeq ==
    \E p \in Procs :
        \/ BeginSeq(p)
        \/ DupCheck(p, StoreModes)
        \/ Delete(p, StoreModes)
        \/ ExistCheck(p, StoreModes)
        \/ Update(p, StoreModes)
        \/ Insert(p, StoreModes)
        \/ Return(p)

\* One attempt at a time; every store call succeeds.  SpecSeqReliable runs it
\* from the empty leaderboard.
NextSeqReliable ==
    \E p \in Procs :
        \/ BeginSeq(p)
        \/ DupCheck(p, Reliable)
        \/ Delete(p, Reliable)
        \/ ExistCheck(p, Reliable)
        \/ Update(p, Reliable)
        \/ Insert(p, Reliable)
        \/ Return(p)

\* A call begun while no other call is under way; once the observer has kept
\* an attempt, the call is made with that attempt's candidate and fingerprint
\* (an attempt with another candidate is given another snapshot).
BeginRepeat(p) ==
    /\ BeginSeq(p)
    /\ \A a \in decisions :
         /\ data'[p] = a.data
         /\ collectionId'[p] = a.collectionId

\* One attempt at a time; store calls may fail; the attempt before the last
\* is kept and the last attempt repeats its candidate.
NextSeqRecorded ==
    \E p \in Procs :
        \/ BeginRepeat(p)
        \/ DupCheck(p, StoreModes)
        \/ Delete(p, StoreModes)
        \/ ExistCheck(p, StoreModes)
        \/ Update(p, StoreModes)
        \/ Insert(p, StoreModes)
        \/ ReturnRecorded(p)

Spec == Init /\ [][Next]_vars
SpecSeqRecorded == Init /\ [][NextSeqRecorded]_vars
SpecReliable == Init /\ [][NextReliable]_vars
SpecSeq == Init /\ [][NextSeq]_vars
SpecSeqReliable == InitEmpty /\ [][NextSeqReliable]_vars

\* ---------------------------------------------- the fingerprint, by itself
\* A collection of at most MaxPets pets is loaded; no submitScore call is
\* under way.
InitFingerprint ==
    /\ board = {}
    /\ nextId = 1
    /\ NoCalls
    /\ petList \in ListsUpTo(FingerprintPets, MaxPets)
    /\ NothingComputed

\* Lines 105-111: the fingerprint of the loaded collection.
ComputeFingerprint ==
    /\ fingerprint = NotComputed
    /\ fingerprint' = CollectionIdOf(petList)
    /\ UNCHANGED <<petList, reordered, changedPet, stats, shown>>
    /\ UNCHANGED callVars

\* The list with the entries at i and i + 1 exchanged.
Swapped(l, i) == [l EXCEPT ![i] = l[i + 1], ![i + 1] = l[i]]

\* The same collection is loaded with its pets in another order (an export
\* lists them as the game hands them out).
Reorder ==
    /\ fingerprint # NotComputed
    /\ changedPet = 0
    /\ \E i \in 1..(Len(petList) - 1) :
         /\ petList[i] # petList[i + 1]
         /\ petList' = Swapped(petList, i)
    /\ reordered' = TRUE
    /\ UNCHANGED <<fingerprint, changedPet, stats, shown>>
    /\ UNCHANGED callVars

\* The collection is loaded again after one of its pets has gained another
\* level or another quality.
ChangePet ==
    /\ fingerprint # NotComputed
    /\ changedPet = 0
    /\ \E i \in 1..Len(petList) :
         /\ \/ \E l \in Levels :
                 /\ petList[i].level.t = "number"
                 /\ l # petList[i].level
                 /\ petList' = [petList EXCEPT ![i].level = l]
            \/ \E q \in Qualities :
                 /\ q # Quality(petList[i])
                 /\ petList' = [petList EXCEPT ![i].quality = q]
         /\ changedPet' = i
    /\ UNCHANGED <<fingerprint, reordered, stats, shown>>
    /\ UNCHANGED callVars

NextFingerprint ==
    \/ ComputeFingerprint
    \/ Reorder
    \/ ChangePet

SpecFingerprint == InitFingerprint /\ [][NextFingerprint]_vars

\* ------------------------------------------------- the My Collection tab
\* (src/ui.js.)  The pets shown: every combination of favorite (true, false,
\* missing), level (missing, 10, 25) and quality (qualityID 4 alone; quality
\* 3), without a name; a pet with no quality at all; a pet whose quality 0
\* stands beside a qualityID of 4; two named favorites of different families.
\* They carry no customName and no familyID.
Favorites == {Bool(TRUE), Bool(FALSE), Undefined}
ShownLevels == {Undefined, Num(10), Num(25)}
QualityPairs ==
    {[quality |-> Undefined, qualityID |-> Num(4)],
     [quality |-> Num(3), qualityID |-> Undefined]}

ShownPets ==
    {Pet(Num(39), Undefined, l, q.quality, q.qualityID, f, Undefined)
       : l \in ShownLevels, q \in QualityPairs, f \in Favorites}
    \cup {Pet(Num(39), Undefined, Num(25), Undefined, Undefined, Undefined,
              Undefined),
          Pet(Num(39), Undefined, Num(25), Num(0), Num(4), Undefined, Undefined),
          Pet(Num(39), Str(1), Num(25), Num(4), Undefined, Bool(TRUE), Num(1)),
          Pet(Num(40), Str(2), Num(25), Num(4), Undefined, Bool(TRUE), Num(2))}

\* A pet counts as rare from quality 3, as epic from quality 4.
RareQuality == 3
EpicQuality == 4
\* The level counted as level 25.
TopLevel == 25

\* ui.js lines 150-162: the counts displayMyCollection puts on the page, each
\* a pets.filter(test).length.
Stats(pets) ==
    [totalPets |-> Len(pets),
     level25 |-> Len(SelectSeq(pets, LAMBDA p : p.level = Num(TopLevel))),
     rare |-> Len(SelectSeq(pets, LAMBDA p : Quality(p).v >= RareQuality)),
     epic |-> Len(SelectSeq(pets, LAMBDA p : Quality(p).v >= EpicQuality)),
     favorites |-> Len(SelectSeq(pets, LAMBDA p : Truthy(p.favorite)))]

\* a.localeCompare(b) of two names: negative, zero or positive.
LocaleCompare(a, b) == a.v - b.v

\* ui.js lines 213-220: the comparator handed to pets.sort().
Compare(a, b) ==
    IF a.favorite # b.favorite THEN (IF Truthy(b.favorite) THEN 1 ELSE -1)
    ELSE IF a.level # b.level
      THEN Or(b.level, Num(0)).v - Or(a.level, Num(0)).v
    ELSE IF Quality(a).v # Quality(b).v THEN Quality(b).v - Quality(a).v
    ELSE LocaleCompare(Or(a.speciesName, Str(0)), Or(b.speciesName, Str(0)))

\* The values of the four filter inputs: '' (no filter, 0 here) or a value.
NoFilter == 0
Filters ==
    [search : {NoFilter, 1}, quality : {NoFilter, 3}, level : {NoFilter, 25},
     family : {NoFilter, 1}]

\* ui.js lines 189-210: the search, quality, level and family filters.  A name
\* includes the search text when it is that name; undefined >= n is false.
Filtered(pets, f) ==
    SelectSeq(pets, LAMBDA p :
        /\ f.search # NoFilter =>
               (Truthy(p.speciesName) /\ p.speciesName = Str(f.search))
        /\ f.quality # NoFilter => Quality(p).v >= f.quality
        /\ f.level # NoFilter => (p.level.t = "number" /\ p.level.v >= f.level)
        /\ f.family # NoFilter => p.petType = Num(f.family))

\* l holds the entries of pets in the order of the indices in perm.
Arranged(pets, perm) == [i \in DOMAIN pets |-> pets[perm[i]]]

\* The permutations of 1..n.
Permutations(n) ==
    {f \in [1..n -> 1..n] : \A i \in 1..n : \E j \in 1..n : f[j] = i}

\* pets.sort(comparator): an arrangement in which every entry is followed by
\* one the comparator does not put before it, entries the comparator calls
\* equal staying in their order (the sort is stable).  A comparator that is
\* no consistent order leaves the arrangement to the engine: any of them.
SortedBy(pets) ==
    {Arranged(pets, perm) : perm \in
        {q \in Permutations(Len(pets)) :
            \A i \in 1..(Len(pets) - 1) :
                LET c == Compare(pets[q[i]], pets[q[i + 1]])
                IN  c < 0 \/ (c = 0 /\ q[i] < q[i + 1])}}

\* A collection of at most MaxShown pets is loaded; no submitScore call is
\* under way.
InitPage ==
    /\ board = {}
    /\ nextId = 1
    /\ NoCalls
    /\ petList \in ListsUpTo(ShownPets, MaxShown)
    /\ NothingComputed

\* ui.js lines 229-232: renderMyPets, run by the filter inputs' listeners
\* (which displayMyCollection sets up at line 178), shows what
\* getMyFilteredPets (lines 184-224) returns for the filter inputs as they
\* stand.
RenderMyPets ==
    /\ stats # Null
    /\ \E f \in Filters : shown' \in SortedBy(Filtered(petList, f))
    /\ UNCHANGED <<petList, fingerprint, reordered, changedPet, stats>>
    /\ UNCHANGED callVars

\* ui.js lines 137-179: displayMyCollection puts the counts on the page and
\* renders the list.  (The progress bar and the score read petList alone and
\* are left out.)
DisplayMyCollection ==
    /\ stats' = Stats(petList)
    /\ \E f \in Filters : shown' \in SortedBy(Filtered(petList, f))
    /\ UNCHANGED <<petList, fingerprint, reordered, changedPet>>
    /\ UNCHANGED callVars

NextPage ==
    \/ DisplayMyCollection
    \/ RenderMyPets

SpecPage == InitPage /\ [][NextPage]_vars

\* ------------------------------------------------------------- the claims
\* The rows of board b for the (player, realm) of d.
OwnRows(b, d) == SelectByPlayerRealm(b, d.player, d.realm)

\* The attempt of p issued a write of this kind.
Issued(p, kind) == \E i \in 1..Len(ops[p]) : ops[p][i].op = kind

\* The attempt of p has data (it passed the guard of line 90) and has ended.
EndedWithData(p) == pc[p] \in Ended \ {"refused"}

\* C1: when the attempt begins on a board that holds a row of the candidate's
\* (player, realm) whose score is at least the candidate's, the attempt issues
\* no insert and no update, and that row is on the board unchanged when the
\* attempt has ended.
C1_NoWriteWhenNotAnImprovement ==
    \A p \in Procs :
        EndedWithData(p) =>
            \A r \in OwnRows(before[p], data[p]) :
                r.score >= data[p].score =>
                    /\ ~Issued(p, "insert")
                    /\ ~Issued(p, "update")
                    /\ r \in board

\* The fingerprint lookup of p's attempt found a row of another player and the
\* user answered the replace prompt with OK.
Replacing(p) ==
    /\ pc[p] \in Ended
    /\ IsOtherPlayers(duplicateCheck[p], data[p])
    /\ refusal[p] = "none"

\* The candidate row as the claims spell it: the candidate's player, realm,
\* score, stats and fingerprint.
CandidateRow(p, id) ==
    [id |-> id, player |-> data[p].player, realm |-> data[p].realm,
     score |-> data[p].score, pets |-> data[p].pets,
     level25 |-> data[p].level25, rare |-> data[p].rare,
     epic |-> data[p].epic, collection_id |-> collectionId[p]]

DeleteOfOld(p) == [op |-> "delete", id |-> duplicateCheck[p].id, row |-> Null]
InsertOfCandidate(p) == [op |-> "insert", id |-> 0, row |-> CandidateRow(p, 0)]
UpdateToCandidate(p) == [op |-> "update", id |-> 0, row |-> CandidateRow(p, 0)]

\* C2 as claimed: a confirmed replacement whose store calls all succeeded has
\* issued exactly the DELETE of the old row and then the INSERT of the
\* candidate row, whatever the candidate's own (player, realm) row was.
C2_ReplaceIsDeleteThenInsert ==
    \A p \in Procs :
        Replacing(p) /\ ~failed[p] =>
            ops[p] = <<DeleteOfOld(p), InsertOfCandidate(p)>>

\* C2 as amended: a confirmed replacement issues the DELETE of the old row
\* first and at most one more write; when its store calls all succeeded, that
\* is the INSERT of the candidate row if the candidate's own (player, realm)
\* row was absent, the UPDATE to the candidate if that row had a lower score,
\* and nothing if that row had a higher or equal score.
C2_ReplaceIsDeleteThenWriteByOwnRow ==
    \A p \in Procs :
        Replacing(p) =>
            /\ Len(ops[p]) \in {1, 2}
            /\ ops[p][1] = DeleteOfOld(p)
            /\ Len(ops[p]) = 2 =>
                   ops[p][2] \in {InsertOfCandidate(p), UpdateToCandidate(p)}
            /\ ~failed[p] =>
                   LET own == OwnRows(before[p], data[p])
                   IN  /\ own = {} => ops[p] = <<DeleteOfOld(p), InsertOfCandidate(p)>>
                       /\ \A r \in own :
                            /\ r.score < data[p].score =>
                                 ops[p] = <<DeleteOfOld(p), UpdateToCandidate(p)>>
                            /\ r.score >= data[p].score =>
                                 ops[p] = <<DeleteOfOld(p)>>

\* C2's case: a confirmed replacement, every store call answered, by a
\* candidate whose own row was on the board with a higher or equal score.
C2_Witness ==
    \E p \in Procs :
        /\ Replacing(p)
        /\ ~failed[p]
        /\ \E r \in OwnRows(before[p], data[p]) : r.score >= data[p].score

\* C3: an attempt one of whose store calls failed (a lookup, the delete, the
\* insert or the update) does not end in the success outcome.
C3_FailedCallNeverSucceeds ==
    \A p \in Procs : failed[p] => pc[p] # "success"

\* Every attempt begun so far has completed.
AllCompleted == \A p \in Procs : pc[p] = "idle"

\* C4: after completed attempts that ran one at a time from an empty board, no
\* two rows have the same collection_id.
C4_FingerprintUnique ==
    AllCompleted =>
        \A r1 \in board, r2 \in board :
            r1.collection_id = r2.collection_id => r1 = r2

\* C5: after any set of attempts, however their store calls interleave, the
\* board holds at most one row for each (player, realm).
C5_OneRowPerPlayerRealm ==
    AllCompleted =>
        \A r1 \in board, r2 \in board :
            (r1.player = r2.player /\ r1.realm = r2.realm) => r1 = r2

\* C6: however the store calls of attempts interleave, the score stored in a
\* (player, realm) row does not decrease from one state to the next.
C6_ScoreNeverDecreases ==
    [][\A r1 \in board : \A r2 \in board' :
          (r1.id = r2.id /\ r1.player = r2.player /\ r1.realm = r2.realm)
              => r2.score >= r1.score]_vars

\* C7: when the attempt begins on a board that holds a row of the candidate's
\* (player, realm) with a strictly lower score, the attempt issues no INSERT,
\* and an attempt that ends in success has issued an UPDATE after which that
\* row carries the candidate's score, stats and fingerprint.
C7_LowerRowIsUpdated ==
    \A p \in Procs :
        EndedWithData(p) =>
            \A r \in OwnRows(before[p], data[p]) :
                r.score < data[p].score =>
                    /\ ~Issued(p, "insert")
                    /\ pc[p] = "success" =>
                           /\ Issued(p, "update")
                           /\ CandidateRow(p, r.id) \in board

\* C8: when the attempt begins on a board with no row of the candidate's
\* fingerprint and no row of the candidate's (player, realm), it issues exactly
\* one INSERT, of the candidate row, and nothing else, unless the user cancels
\* the submit prompt or a lookup throws (then it issues nothing); on success
\* the board is the old board plus the candidate row.
C8_FreshCandidateIsInserted ==
    \A p \in Procs :
        ( /\ EndedWithData(p)
          /\ SelectByCollectionId(before[p], collectionId[p]) = {}
          /\ OwnRows(before[p], data[p]) = {} ) =>
            /\ \/ ops[p] = <<InsertOfCandidate(p)>>
               \/ ops[p] = <<>> /\ pc[p] \in {"cancelled", "exception"}
            /\ pc[p] = "success" =>
                   \E r \in board \ before[p] :
                       /\ r = CandidateRow(p, r.id)
                       /\ board = before[p] \cup {r}

\* C8's case: an attempt on a board that holds rows, none of the candidate's
\* fingerprint or (player, realm), has ended in success.
C8_Witness ==
    \E p \in Procs :
        /\ pc[p] = "success"
        /\ before[p] # {}
        /\ SelectByCollectionId(before[p], collectionId[p]) = {}
        /\ OwnRows(before[p], data[p]) = {}
        /\ ops[p] = <<InsertOfCandidate(p)>>

\* C9: once the user has answered a confirm() of the attempt with Cancel (the
\* submit prompt or the replace prompt), the attempt has ended, has issued no
\* DELETE, INSERT or UPDATE, and the board is as it was when the attempt began.
C9_DeclineWritesNothing ==
    \A p \in Procs :
        refusal[p] # "none" =>
            /\ pc[p] \in {"cancelled", "declined"}
            /\ ops[p] = <<>>
            /\ board = before[p]

\* C9's case: the replace prompt, shown for a row of another player, was
\* answered with Cancel.
C9_Witness ==
    \E p \in Procs :
        /\ refusal[p] = "replace"
        /\ IsOtherPlayers(duplicateCheck[p], data[p])
        /\ duplicateCheck[p] \in board

\* The number of writes of the given kinds the attempt of p has issued.
IssuedCount(p, kinds) == Cardinality({i \in 1..Len(ops[p]) : ops[p][i].op \in kinds})

\* C10: an attempt issues at most one DELETE and at most one INSERT or UPDATE
\* (never both, never one of them twice), whether or not a write failed.
C10_EachWriteAtMostOnce ==
    \A p \in Procs :
        /\ IssuedCount(p, {"delete"}) <= 1
        /\ IssuedCount(p, {"insert", "update"}) <= 1

\* C10's case: an attempt has ended in the error alert of a failed insert or
\* update, having issued the delete before it.
C10_Witness ==
    \E p \in Procs :
        /\ pc[p] = "errorResult"
        /\ IssuedCount(p, {"delete"}) = 1
        /\ IssuedCount(p, {"insert", "update"}) = 1

\* C11: the fingerprint computed in submitScore is order independent: the
\* fingerprint computed for a collection is the fingerprint of the same
\* collection in every other order of its pets.
C11_FingerprintOrderIndependent ==
    (fingerprint # NotComputed /\ changedPet = 0) =>
        CollectionIdOf(petList) = fingerprint

\* C11's case: a fingerprint was computed for a collection of several
\* different pets, and the collection is now in another order.
C11_Witness ==
    /\ fingerprint # NotComputed
    /\ reordered
    /\ changedPet = 0
    /\ Cardinality({petList[i] : i \in DOMAIN petList}) >= 3

\* C12: for a collection of any size, once one pet's level or quality has
\* been changed to a different value, the fingerprint of the collection
\* differs from the fingerprint computed before the change.
C12_ChangeChangesFingerprint ==
    changedPet # 0 => CollectionIdOf(petList) # fingerprint

\* C13: a call that finds no computed score or no loaded player data ends at
\* the guard: it shows no confirm(), issues no store read and no store write,
\* and leaves the board as it was.
C13_NothingLoadedRefuses ==
    \A p \in Procs :
        ( /\ pc[p] # "idle"
          /\ NothingLoaded(loaded[p].playerData, loaded[p].currentScoreData) ) =>
            /\ pc[p] = "refused"
            /\ asked[p] = <<>>
            /\ ops[p] = <<>>
            /\ board = before[p]

\* C13's case: a call made with player data loaded but no score computed, on
\* a board that holds a row, has ended at the guard.
C13_Witness ==
    \E p \in Procs :
        /\ pc[p] = "refused"
        /\ loaded[p].playerData # Null
        /\ loaded[p].currentScoreData = Null
        /\ board # {}

\* The attempt was given its snapshot: none of its lookups and not its delete
\* was rejected (a rejected insert or update comes after the decision).
GivenSnapshot(a) ==
    \/ a.outcome # "exception"
    \/ /\ a.ops # <<>>
       /\ a.ops[Len(a.ops)].op \in {"insert", "update"}

\* Two attempts were given the same candidate, fingerprint, byFingerprint row,
\* byPlayerRealm row and answers.
SameSnapshot(a, b) ==
    /\ a.data = b.data
    /\ a.collectionId = b.collectionId
    /\ a.duplicateCheck = b.duplicateCheck
    /\ a.existing = b.existing
    /\ a.refusal = b.refusal

\* The completed attempts and the attempts that have reached their return.
Decided == decisions \cup {Decision(p) : p \in {q \in Procs : EndedWithData(q)}}

\* C14: two attempts given the same candidate, fingerprint, byFingerprint row,
\* byPlayerRealm row and confirmation answers have issued the same store
\* writes with the same arguments, and the same confirms and reads, whatever
\* the attempts before them did.
C14_DecisionDeterministic ==
    \A a \in Decided, b \in Decided :
        (SameSnapshot(a, b) /\ GivenSnapshot(a) /\ GivenSnapshot(b)) =>
            /\ a.ops = b.ops
            /\ a.asked = b.asked

\* C14's case: an attempt with the snapshot of an earlier attempt that wrote
\* has reached its return on a board the earlier attempt has changed.
C14_Witness ==
    \E p \in Procs : \E a \in decisions :
        /\ EndedWithData(p)
        /\ SameSnapshot(a, Decision(p))
        /\ GivenSnapshot(a)
        /\ GivenSnapshot(Decision(p))
        /\ a.ops # <<>>
        /\ a.outcome = "success"
        /\ board # before[p]

\* The resolved quality as the claim words it: `quality` if numeric, else
\* `qualityID`, else 0.
ResolvedQuality(p) ==
    IF p.quality.t = "number" THEN p.quality.v
    ELSE IF p.qualityID.t = "number" THEN p.qualityID.v
    ELSE 0

\* C15: the counts displayMyCollection shows are: level25 the number of pets
\* with level equal to 25, rare the number with resolved quality at least 3,
\* epic the number with resolved quality at least 4; so epic <= rare <= the
\* number of pets, and an empty collection gives zeros.
C15_StatsCountPets ==
    stats # Null =>
        /\ stats.totalPets = Len(petList)
        /\ stats.level25 =
               Cardinality({i \in DOMAIN petList : petList[i].level = Num(25)})
        /\ stats.rare =
               Cardinality({i \in DOMAIN petList :
                               ResolvedQuality(petList[i]) >= 3})
        /\ stats.epic =
               Cardinality({i \in DOMAIN petList :
                               ResolvedQuality(petList[i]) >= 4})
        /\ stats.epic <= stats.rare
        /\ stats.rare <= stats.totalPets
        /\ petList = <<>> =>
               (stats.level25 = 0 /\ stats.rare = 0 /\ stats.epic = 0)

\* C15's case: the counts are shown for a collection with a pet that is epic
\* by its qualityID alone and a pet whose numeric quality 0 stands beside a
\* qualityID of 4.
C15_Witness ==
    /\ stats # Null
    /\ \E i \in DOMAIN petList :
         petList[i].quality = Undefined /\ petList[i].qualityID = Num(4)
    /\ \E i \in DOMAIN petList :
         petList[i].quality = Num(0) /\ petList[i].qualityID = Num(4)
    /\ stats.epic = 1

\* The level the comparator ranks a pet by: its level, 0 when it has none.
RankLevel(p) == Or(p.level, Num(0)).v

\* C16: for any two pets of the list getMyFilteredPets has ordered, the
\* comparator never ranks each before the other; among two pets that are both
\* not favorites it ranks the one with the higher level first, and the list
\* returned has no such pet before one of a higher level.
C16_ComparatorOrdersPets ==
    shown # NotShown =>
        /\ \A i \in DOMAIN petList, j \in DOMAIN petList :
             LET a == petList[i]
                 b == petList[j]
             IN  /\ ~(Compare(a, b) < 0 /\ Compare(b, a) < 0)
                 /\ ( /\ ~Truthy(a.favorite)
                      /\ ~Truthy(b.favorite)
                      /\ RankLevel(a) > RankLevel(b) ) => Compare(a, b) < 0
        /\ \A i \in DOMAIN shown, j \in DOMAIN shown :
             ( /\ i < j
               /\ ~Truthy(shown[i].favorite)
               /\ ~Truthy(shown[j].favorite) ) =>
                 RankLevel(shown[i]) >= RankLevel(shown[j])

====
